---- MODULE Spec2Model ----
(***************************************************************************)
(* A model of build_data.py (fsu-nlp/lexa-index): process_directory walks  *)
(* a tree of experiment outputs and turns every (las_word_<lang>.csv,      *)
(* summary_<lang>.json) pair into one compact JSON dataset plus an         *)
(* index.json inventory.                                                   *)
(*                                                                         *)
(* Text is modelled as sequences of one-character strings, a path as a     *)
(* sequence of segments, a float as a record [nan, v] (v in the unit of    *)
(* the field) so that float("nan") is a value the parser can return.       *)
(***************************************************************************)
EXTENDS Integers, Sequences, FiniteSets, TLC

(***************************************************************************)
(* Characters and strings                                                  *)
(***************************************************************************)
DigitChars == {"0", "1", "2", "3", "4", "5", "6", "7", "8", "9"}

LetterChars ==
    {"a", "b", "c", "d", "e", "f", "g", "h", "i", "j", "k", "l", "m", "n", "o", "p", "q",
     "r", "s", "t", "u", "v", "w", "x", "y", "z"}

\* str.isalnum() of one character
IsAlnum(ch) == ch \in DigitChars \cup LetterChars

\* the characters str.strip() removes
IsSpace(ch) == ch = " "

RECURSIVE LStrip(_)
LStrip(s) == IF s # <<>> /\ IsSpace(Head(s)) THEN LStrip(Tail(s)) ELSE s

RECURSIVE RStrip(_)
RStrip(s) ==
    IF s # <<>> /\ IsSpace(s[Len(s)]) THEN RStrip(SubSeq(s, 1, Len(s) - 1)) ELSE s

\* str.strip()
Strip(s) == RStrip(LStrip(s))

\* s[i:].startswith(p), i 1-based
StartsWithAt(s, i, p) ==
    /\ i + Len(p) - 1 <= Len(s)
    /\ SubSeq(s, i, i + Len(p) - 1) = p

\* s[i-1:].replace(old, ""): every non-overlapping occurrence, scanning from the left
RECURSIVE RemoveFrom(_, _, _)
RemoveFrom(s, i, old) ==
    IF i > Len(s) THEN <<>>
    ELSE IF StartsWithAt(s, i, old) THEN RemoveFrom(s, i + Len(old), old)
    ELSE <<s[i]>> \o RemoveFrom(s, i + 1, old)

\* str.replace(old, "")
RemoveAll(s, old) == RemoveFrom(s, 1, old)

\* the literal of line 23
LasPrefix == <<"l", "a", "s", "-">>

\* the regular expression -\d{4}-\d{2}-\d{2} matches at position i of s
DateStampAt(s, i) ==
    /\ i + 10 <= Len(s)
    /\ s[i] = "-" /\ s[i + 5] = "-" /\ s[i + 8] = "-"
    /\ \A k \in {1, 2, 3, 4, 6, 7, 9, 10} : s[i + k] \in DigitChars

\* re.sub(r"-\d{4}-\d{2}-\d{2}.*", "", s): the leftmost match runs to the end of
\* the name (no line break occurs in a folder name of the model), so the name is
\* cut where the first date stamp starts
CutDateStamp(s) ==
    LET hits == {i \in 1..Len(s) : DateStampAt(s, i)}
    IN  IF hits = {} THEN s
        ELSE SubSeq(s, 1, (CHOOSE i \in hits : \A j \in hits : i <= j) - 1)

\* F(x) with x a value: TLC computes an operator's argument again at every
\* use of it, and a value bound by a quantifier once
Apply(F(_), x) == CHOOSE y \in {F(v) : v \in {x}} : TRUE

\* build_data.py:21-25
clean_model_name(folder_name) == Apply(CutDateStamp, RemoveAll(folder_name, LasPrefix))

\* a CSV cell that DictReader did not fill (a short row): Python's None
NoneStr == <<"<None>">>

\* build_data.py:30-36
has_any_alnum(token) ==
    IF token = NoneStr THEN FALSE
    ELSE IF Strip(token) = <<>> THEN FALSE
    ELSE \E i \in 1..Len(Strip(token)) : IsAlnum(Strip(token)[i])

(***************************************************************************)
(* Paths.  A path text is the sequence of its segments between slashes:   *)
(* "a/b" is <<a, b>>, "a/b/" is <<a, b, <<>>>>, "/a" is <<<<>>, a>>.       *)
(***************************************************************************)
DotSeg == <<".">>

\* os.path.basename: the text after the last slash
basename(p) == p[Len(p)]

\* os.path.join(p, name)
join(p, name) ==
    IF p[Len(p)] = <<>> THEN SubSeq(p, 1, Len(p) - 1) \o <<name>> ELSE Append(p, name)

\* os.walk's dirpath of the directory `sub` below `top`
RECURSIVE walk_root(_, _)
walk_root(top, sub) ==
    IF sub = <<>> THEN top ELSE walk_root(join(top, Head(sub)), Tail(sub))

\* os.path.normpath(p).split(os.sep): empty and "." segments go, the leading
\* empty segment of an absolute path stays (the model's paths hold no "..")
normpath(p) ==
    LET keep == SelectSeq(p, LAMBDA seg : seg # <<>> /\ seg # DotSeg)
    IN  IF p[1] = <<>> THEN <<<<>>>> \o keep
        ELSE IF keep = <<>> THEN <<DotSeg>>
        ELSE keep

\* list.index(x), 1-based; 0 stands for ValueError
ListIndex(parts, x) ==
    LET hits == {i \in 1..Len(parts) : parts[i] = x}
    IN  IF hits = {} THEN 0 ELSE CHOOSE i \in hits : \A j \in hits : i <= j

\* lines 68-73, given the path_parts of line 65; ok = FALSE is the `continue`
\* of lines 71-72
metadata_of(path_parts, root_base) ==
    LET root_idx == ListIndex(path_parts, root_base)
    IN  IF root_idx = 0 \/ root_idx + 2 > Len(path_parts)
        THEN [ok |-> FALSE, register |-> <<>>, model_raw |-> <<>>, model_clean |-> <<>>]
        ELSE [ok |-> TRUE,
              register |-> path_parts[root_idx + 1],
              model_raw |-> path_parts[root_idx + 2],
              model_clean |-> clean_model_name(path_parts[root_idx + 2])]

\* build_data.py:65-75
extract_metadata(root, input_root) ==
    LET with_base(path_parts) == metadata_of(path_parts, basename(input_root))
    IN  Apply(with_base, normpath(root))

(***************************************************************************)
(* Floats.  A float is [nan, v]: v is an integer in the unit of its field  *)
(* (counts: 1; las and lpr: 1e-8; a and h: 1e-2; r: 1e-1).                 *)
(***************************************************************************)
Num(v) == [nan |-> FALSE, v |-> v]

NaN == [nan |-> TRUE, v |-> 0]

\* Python's x < y on floats: False whenever a NaN is involved
FLt(x, y) == ~x.nan /\ ~y.nan /\ x.v < y.v

\* x >= n for an int n
FGeInt(x, n) == ~x.nan /\ x.v >= n

\* x == 0.0
FIsZero(x) == ~x.nan /\ x.v = 0

\* a / b rounded to the nearest integer, ties to even (a >= 0, b > 0)
RoundDivPos(a, b) ==
    LET q == a \div b
        rem == a % b
    IN  IF 2 * rem < b THEN q
        ELSE IF 2 * rem > b THEN q + 1
        ELSE IF q % 2 = 0 THEN q ELSE q + 1

RoundDiv(a, b) == IF a >= 0 THEN RoundDivPos(a, b) ELSE 0 - RoundDivPos(0 - a, b)

\* round(x, 4) of a float in 1e-8 units
Round4(x) == IF x.nan THEN x ELSE Num(RoundDiv(x.v, 10000) * 10000)

RECURSIVE Gcd(_, _)
Gcd(a, b) == IF b = 0 THEN a ELSE Gcd(b, a % b)

\* round(log2(n / d) * 1e8) for coprime n, d in 1..6
Log2E8 ==
    <<1, 1>> :> 0 @@ <<1, 2>> :> -100000000 @@ <<1, 3>> :> -158496250 @@
    <<1, 4>> :> -200000000 @@ <<1, 5>> :> -232192809 @@ <<1, 6>> :> -258496250 @@
    <<2, 1>> :> 100000000 @@ <<2, 3>> :> -58496250 @@ <<2, 5>> :> -132192809 @@
    <<3, 1>> :> 158496250 @@ <<3, 2>> :> 58496250 @@ <<3, 4>> :> -41503750 @@
    <<3, 5>> :> -73696559 @@ <<4, 1>> :> 200000000 @@ <<4, 3>> :> 41503750 @@
    <<4, 5>> :> -32192809 @@ <<5, 1>> :> 232192809 @@ <<5, 2>> :> 132192809 @@
    <<5, 3>> :> 73696559 @@ <<5, 4>> :> 32192809 @@ <<5, 6>> :> -26303441 @@
    <<6, 1>> :> 258496250 @@ <<6, 5>> :> 26303441

\* math.log2(n / d) for positive integers n, d, in 1e-8 units
Log2Ratio(n, d) == Log2E8[<<n \div Gcd(n, d), d \div Gcd(n, d)>>]

(***************************************************************************)
(* CSV cells.  A cell is [k, v]: k = "none" (DictReader left it None),     *)
(* "empty" (the text ""), "junk" (text float() rejects), "nan" (the text   *)
(* "nan") or "num" (text float() reads as v, in the unit of the column).   *)
(***************************************************************************)
Cell(k, v) == [k |-> k, v |-> v]

\* `row.get(col)` is truthy
Truthy(cell) == cell.k \notin {"none", "empty"}

\* float(text) raises ValueError
FloatRaises(cell) == cell.k = "junk"

\* float(text) when it does not raise
FloatOf(cell) == IF cell.k = "nan" THEN NaN ELSE Num(cell.v)

\* `float(row[col]) if row.get(col) else 0.0` raises (lines 118, 119, 150)
FieldRaises(cell) == Truthy(cell) /\ FloatRaises(cell)

\* `float(row[col]) if row.get(col) else 0.0` (lines 118, 119, 150)
FieldValue(cell) == IF Truthy(cell) THEN FloatOf(cell) ELSE Num(0)

(***************************************************************************)
(* The row transformer, build_data.py:108-173.  A CSV row is               *)
(* [form, c_M, c_H, LAS]: form a text (or NoneStr), the rest cells.  The   *)
(* pass-through column upos takes no part in any decision and is left out. *)
(***************************************************************************)
\* lines 131-136 with the round(.., 2) of lines 168-169, in 1e-2 units
opm(raw_count, total_tokens) ==
    IF total_tokens > 0
    THEN IF raw_count.nan THEN NaN
         ELSE Num(RoundDiv(raw_count.v * 100000000, total_tokens))
    ELSE Num(0)

\* line 139 divides by zero; smooth2 is ratio_smooth in halves
RatioRaises(raw_count_human, smooth2) ==
    ~raw_count_human.nan /\ 2 * raw_count_human.v + smooth2 = 0

\* line 139 with the round(.., 1) of line 170, in 1e-1 units
ratio(raw_count_ai, raw_count_human, smooth2) ==
    IF raw_count_ai.nan \/ raw_count_human.nan THEN NaN
    ELSE Num(RoundDiv(10 * (2 * raw_count_ai.v + smooth2), 2 * raw_count_human.v + smooth2))

\* lines 143-148 with the add-one count compared to the minimum
impact_of_smoothed_count(raw_count_ai, raw_count_human, min_ai_count_for_impact) ==
    IF FGeInt([raw_count_ai EXCEPT !.v = @ + 1], min_ai_count_for_impact)
    THEN IF raw_count_human.nan THEN NaN
         ELSE Num(Log2Ratio(raw_count_ai.v + 1, raw_count_human.v + 1))
    ELSE Num(0)

\* lines 143-148, in 1e-8 units
impact(raw_count_ai, raw_count_human, min_ai_count_for_impact) ==
    IF FGeInt(raw_count_ai, min_ai_count_for_impact)
    THEN IF raw_count_human.nan THEN NaN
         ELSE Num(Log2Ratio(raw_count_ai.v + 1, raw_count_human.v + 1))
    ELSE Num(0)

\* lines 124-128 with the test of line 127 alone
compact_drops_both_zero(mode, raw_count_ai, raw_count_human) ==
    mode = "compact" /\ FIsZero(raw_count_ai) /\ FIsZero(raw_count_human)

\* the compact-mode filter of lines 124-128
compact_drops(mode, raw_count_ai, raw_count_human) ==
    mode = "compact" /\ FIsZero(raw_count_ai)

\* one iteration of the loop of line 108, after n_rows_csv += 1:
\* "drop_alnum" (lines 113-115), "raise" (an exception leaves the loop),
\* "drop_compact" (lines 124-128) or "row" (lines 163-173)
transform_row(row, src, mode, min_ai_count_for_impact, smooth2, total_tokens) ==
    LET raw_count_ai == FieldValue(row.c_M)
        raw_count_human == FieldValue(row.c_H)
        none == [src |-> src, w |-> <<>>, las |-> Num(0), lpr |-> Num(0), a |-> Num(0),
                 h |-> Num(0), r |-> Num(0), rk_las |-> 0, rk_lpr |-> 0]
    IN  IF ~has_any_alnum(row.form) THEN [kind |-> "drop_alnum", row |-> none]
        ELSE IF FieldRaises(row.c_M) \/ FieldRaises(row.c_H)
        THEN [kind |-> "raise", row |-> none]
        ELSE IF compact_drops(mode, raw_count_ai, raw_count_human)
        THEN [kind |-> "drop_compact", row |-> none]
        ELSE IF RatioRaises(raw_count_human, smooth2) \/ FieldRaises(row.LAS)
        THEN [kind |-> "raise", row |-> none]
        ELSE [kind |-> "row",
              row |-> [src |-> src,
                       w |-> Strip(row.form),
                       las |-> FieldValue(row.LAS),
                       lpr |-> impact(raw_count_ai, raw_count_human, min_ai_count_for_impact),
                       a |-> opm(raw_count_ai, total_tokens),
                       h |-> opm(raw_count_human, total_tokens),
                       r |-> ratio(raw_count_ai, raw_count_human, smooth2),
                       rk_las |-> 0,
                       rk_lpr |-> 0]]

(***************************************************************************)
(* list.sort as CPython runs it on fewer than 64 items (one run, extended  *)
(* by binary insertion; reverse=True reverses before and after, which      *)
(* keeps equal items in their order).  The sort works on the positions     *)
(* 1..n of the list; lt[i][j] is key(item i) < key(item j).                *)
(***************************************************************************)
ReverseSeq(s) == [i \in 1..Len(s) |-> s[Len(s) + 1 - i]]

\* count_run: the length of the run the list starts with, and whether it is
\* a strictly descending one
count_run(s, lt) ==
    IF Len(s) <= 1 THEN [n |-> Len(s), descending |-> FALSE]
    ELSE LET desc == lt[s[2]][s[1]]
             Goes(i) == IF desc THEN lt[s[i]][s[i - 1]] ELSE ~lt[s[i]][s[i - 1]]
             n == CHOOSE k \in 2..Len(s) :
                      /\ \A i \in 3..k : Goes(i)
                      /\ k = Len(s) \/ ~Goes(k + 1)
         IN  [n |-> n, descending |-> desc]

\* binarysort's search: where the pivot goes into the sorted s[1..r]
RECURSIVE bisect(_, _, _, _, _)
bisect(s, pivot, l, r, lt) ==
    IF l >= r THEN l
    ELSE LET p == l + ((r - l) \div 2)
         IN  IF lt[pivot][s[p + 1]] THEN bisect(s, pivot, l, p, lt)
             ELSE bisect(s, pivot, p + 1, r, lt)

\* binarysort: s[1..start-1] is sorted, the items from start on are inserted
RECURSIVE binarysort(_, _, _)
binarysort(s, start, lt) ==
    IF start > Len(s) THEN s
    ELSE LET l == bisect(s, s[start], 0, start - 1, lt)
             moved == SubSeq(s, 1, l) \o <<s[start]>> \o SubSeq(s, l + 1, start - 1)
                          \o SubSeq(s, start + 1, Len(s))
         IN  binarysort(moved, start + 1, lt)

\* the order list.sort leaves n items in, as the sequence of their old positions
list_sort(n, lt, reverse) ==
    LET s0 == IF reverse THEN [i \in 1..n |-> n + 1 - i] ELSE [i \in 1..n |-> i]
        run == count_run(s0, lt)
        s1 == IF run.descending
              THEN ReverseSeq(SubSeq(s0, 1, run.n)) \o SubSeq(s0, run.n + 1, n)
              ELSE s0
        s2 == binarysort(s1, run.n + 1, lt)
    IN  IF reverse THEN ReverseSeq(s2) ELSE s2

\* rows.sort(key=lambda x: x["las"], reverse=True), line 177
sort_by_las(rows) ==
    LET lt == [i \in 1..Len(rows) |-> [j \in 1..Len(rows) |-> FLt(rows[i].las, rows[j].las)]]
        order == list_sort(Len(rows), lt, TRUE)
    IN  [k \in 1..Len(rows) |-> rows[order[k]]]

\* rows.sort(key=lambda x: x["lpr"], reverse=True), line 182
sort_by_lpr(rows) ==
    LET lt == [i \in 1..Len(rows) |-> [j \in 1..Len(rows) |-> FLt(rows[i].lpr, rows[j].lpr)]]
        order == list_sort(Len(rows), lt, TRUE)
    IN  [k \in 1..Len(rows) |-> rows[order[k]]]

\* rows.sort(key=lambda x: x["rk_las"]), line 187
sort_by_rk_las(rows) ==
    LET lt == [i \in 1..Len(rows) |-> [j \in 1..Len(rows) |-> rows[i].rk_las < rows[j].rk_las]]
        order == list_sort(Len(rows), lt, FALSE)
    IN  [k \in 1..Len(rows) |-> rows[order[k]]]

\* lines 177-179
rank_las(rows) ==
    LET sorted == sort_by_las(rows)
    IN  [i \in 1..Len(rows) |-> [sorted[i] EXCEPT !.rk_las = i]]

\* lines 182-184
rank_lpr(rows) ==
    LET sorted == sort_by_lpr(rows)
    IN  [i \in 1..Len(rows) |-> [sorted[i] EXCEPT !.rk_lpr = i]]

\* lines 189-190 without the sort of line 187
round_without_sort(rows) ==
    [i \in 1..Len(rows) |->
        [rows[i] EXCEPT !.las = Round4(rows[i].las), !.lpr = Round4(rows[i].lpr)]]

\* lines 187-190
final_sort_and_round(rows) ==
    LET sorted == sort_by_rk_las(rows)
    IN  [i \in 1..Len(rows) |->
            [sorted[i] EXCEPT !.las = Round4(sorted[i].las), !.lpr = Round4(sorted[i].lpr)]]

(***************************************************************************)
(* The summary reader, build_data.py:77-95.  A JSON number or null is      *)
(* [null, v]; a member of the summary object is [kind, has, val]: kind =   *)
(* "absent" (no such key), "notdict" (a value with no .get) or "dict",     *)
(* has = the inner key is there, val = its value.  ok = FALSE: the file    *)
(* cannot be opened, is not JSON, or is not a JSON object.                 *)
(***************************************************************************)
JInt(v) == [null |-> FALSE, v |-> v]

JNull == [null |-> TRUE, v |-> 0]

JMember(kind, has, val) == [kind |-> kind, has |-> has, val |-> val]

\* Python's truth value of a JSON number or null
JTruthy(x) == ~x.null /\ x.v # 0

\* x == 0
JIsZero(x) == ~x.null /\ x.v = 0

\* the default window of lines 79 and 85
DefaultWindow == 40

\* lines 87-90 with the fallback to qc only when pairing_qc gives nothing
read_n_pairs_no_zero_fallback(js) ==
    IF js.pairing_qc.kind = "dict" /\ js.pairing_qc.has THEN js.pairing_qc.val
    ELSE IF js.qc.kind = "dict" /\ js.qc.has THEN js.qc.val
    ELSE JInt(0)

\* lines 87-90, when nothing raises
read_n_pairs(js) ==
    LET first == IF js.pairing_qc.kind = "dict" /\ js.pairing_qc.has
                 THEN js.pairing_qc.val ELSE JInt(0)
    IN  IF JIsZero(first) /\ js.qc.kind = "dict"
        THEN IF js.qc.has THEN js.qc.val ELSE JInt(0)
        ELSE first

\* line 85, when it does not raise
read_k_window(js) ==
    IF js.params.kind = "dict" /\ js.params.has THEN js.params.val ELSE JInt(DefaultWindow)

\* line 93
compute_total_tokens(n_pairs, k_window) ==
    IF JTruthy(n_pairs) /\ JTruthy(k_window) THEN n_pairs.v * k_window.v ELSE 0

\* lines 79-95: the values the three locals have after the try block
read_summary(js) ==
    LET initial == [k_window |-> JInt(DefaultWindow), n_pairs |-> JInt(0),
                    total_tokens |-> 0, failed |-> TRUE]
        first == IF js.pairing_qc.kind = "dict" /\ js.pairing_qc.has
                 THEN js.pairing_qc.val ELSE JInt(0)
    IN  IF ~js.ok \/ js.params.kind = "notdict" THEN initial
        ELSE IF js.pairing_qc.kind = "notdict"
        THEN [initial EXCEPT !.k_window = read_k_window(js)]
        ELSE IF JIsZero(first) /\ js.qc.kind = "notdict"
        THEN [initial EXCEPT !.k_window = read_k_window(js), !.n_pairs = first]
        ELSE [k_window |-> read_k_window(js),
              n_pairs |-> read_n_pairs(js),
              total_tokens |-> compute_total_tokens(read_n_pairs(js), read_k_window(js)),
              failed |-> FALSE]

(***************************************************************************)
(* File names                                                              *)
(***************************************************************************)
LasWordPrefix == <<"l", "a", "s", "_", "w", "o", "r", "d", "_">>

CsvSuffix == <<".", "c", "s", "v">>

JsonSuffix == <<".", "j", "s", "o", "n">>

\* line 55
is_csv_file(f) ==
    /\ StartsWithAt(f, 1, LasWordPrefix)
    /\ Len(f) >= Len(CsvSuffix)
    /\ StartsWithAt(f, Len(f) - Len(CsvSuffix) + 1, CsvSuffix)

\* line 58
lang_of(csv_file) == RemoveAll(RemoveAll(csv_file, LasWordPrefix), CsvSuffix)

\* line 195
output_filename(lang_, register_, model_clean_) ==
    lang_ \o <<"_">> \o register_ \o <<"_">> \o model_clean_ \o JsonSuffix

(***************************************************************************)
(* process_directory, build_data.py:39-247, as a state machine.            *)
(*                                                                         *)
(* cfg is the call's arguments; todo is what os.walk and the listing of    *)
(* each directory yield, in traversal order: one entry [sub, csv_file,     *)
(* has_summary] per file that passes the filter of line 55.  The contents  *)
(* of a summary or CSV file are drawn when the file is read.  The other    *)
(* variables are the locals of the function, the output directory (files,  *)
(* index_json) and two records of what happened: csv_read, the CSV rows    *)
(* read so far, and outcomes, one entry per todo entry dealt with.         *)
(***************************************************************************)
VARIABLES cfg, todo, idx, pc, lang, root, register, model_raw, model_clean, summary,
          k_window, n_pairs, total_tokens, csv_read, rows, n_rows_csv,
          n_rows_dropped_non_alnum, outcomes, inventory, files, index_json

vars == <<cfg, todo, idx, pc, lang, root, register, model_raw, model_clean, summary,
          k_window, n_pairs, total_tokens, csv_read, rows, n_rows_csv,
          n_rows_dropped_non_alnum, outcomes, inventory, files, index_json>>

input_vars == <<cfg, todo>>

path_vars == <<lang, root, register, model_raw, model_clean>>

summary_vars == <<summary, k_window, n_pairs, total_tokens>>

csv_vars == <<csv_read, rows, n_rows_csv, n_rows_dropped_non_alnum>>

output_vars == <<inventory, files, index_json>>

IsPrefix(p, q) == Len(p) <= Len(q) /\ SubSeq(q, 1, Len(p)) = p

\* the longest common prefix of two paths has length at least n
SharePrefix(p, q, n) == n <= Len(p) /\ n <= Len(q) /\ SubSeq(p, 1, n) = SubSeq(q, 1, n)

\* os.walk is top-down and depth-first: a directory comes before what is below
\* it, the files of one directory come together, and what is visited between
\* two directories lies below every directory above both
WalkOrder(t) ==
    /\ \A i, j \in 1..Len(t) :
           i < j => <<t[i].sub, t[i].csv_file>> # <<t[j].sub, t[j].csv_file>>
    /\ \A i, j \in 1..Len(t) :
           i < j => ~(IsPrefix(t[j].sub, t[i].sub) /\ t[j].sub # t[i].sub)
    /\ \A i, j, k \in 1..Len(t) :
           i < j /\ j < k =>
               \A n \in 0..Len(t[i].sub) :
                   SharePrefix(t[i].sub, t[k].sub, n) => SharePrefix(t[i].sub, t[j].sub, n)

SeqsUpTo(S, n) == UNION {[1..m -> S] : m \in 0..n}

NoSummary ==
    [ok |-> FALSE, params |-> JMember("absent", FALSE, JNull),
     pairing_qc |-> JMember("absent", FALSE, JNull), qc |-> JMember("absent", FALSE, JNull)]

\* the state when process_directory starts its walk (lines 46-54), for the
\* arguments and the tree drawn from the given sets
InitFrom(roots, modes, mins, smooths, entries, max_entries) ==
    /\ cfg \in [input_root : roots, mode : modes, min_ai_count_for_impact : mins,
                smooth2 : smooths]
    /\ todo \in {t \in SeqsUpTo(entries, max_entries) :
                     WalkOrder(t) /\ \A i \in 1..Len(t) : is_csv_file(t[i].csv_file)}
    /\ idx = 0
    /\ pc = "walk"
    /\ lang = <<>> /\ root = <<>> /\ register = <<>> /\ model_raw = <<>> /\ model_clean = <<>>
    /\ summary = NoSummary
    /\ k_window = JInt(DefaultWindow) /\ n_pairs = JInt(0) /\ total_tokens = 0
    /\ csv_read = <<>> /\ rows = <<>> /\ n_rows_csv = 0 /\ n_rows_dropped_non_alnum = 0
    /\ outcomes = <<>>
    /\ inventory = <<>>
    /\ files = <<>>
    /\ index_json = [written |-> FALSE, entries |-> <<>>]

\* lines 54-62: the next CSV file of the walk has its summary beside it
NextCsvFile ==
    /\ pc = "walk" /\ idx < Len(todo)
    /\ todo[idx + 1].has_summary
    /\ idx' = idx + 1
    /\ lang' = lang_of(todo[idx + 1].csv_file)
    /\ root' = walk_root(cfg.input_root, todo[idx + 1].sub)
    /\ pc' = "meta"
    /\ UNCHANGED <<input_vars, register, model_raw, model_clean, summary_vars, csv_vars,
                   outcomes, output_vars>>

\* lines 61-62: no summary file beside the CSV file
SkipNoSummary ==
    /\ pc = "walk" /\ idx < Len(todo)
    /\ ~todo[idx + 1].has_summary
    /\ idx' = idx + 1
    /\ lang' = lang_of(todo[idx + 1].csv_file)
    /\ root' = walk_root(cfg.input_root, todo[idx + 1].sub)
    /\ outcomes' = Append(outcomes, "no_summary")
    /\ UNCHANGED <<input_vars, pc, register, model_raw, model_clean, summary_vars, csv_vars,
                   output_vars>>

\* lines 65-73
ExtractMetadata ==
    /\ pc = "meta"
    /\ extract_metadata(root, cfg.input_root).ok
    /\ register' = extract_metadata(root, cfg.input_root).register
    /\ model_raw' = extract_metadata(root, cfg.input_root).model_raw
    /\ model_clean' = extract_metadata(root, cfg.input_root).model_clean
    /\ pc' = "summary"
    /\ UNCHANGED <<input_vars, idx, lang, root, summary_vars, csv_vars, outcomes, output_vars>>

\* lines 71-72: ValueError or IndexError, the directory is skipped
SkipBadPath ==
    /\ pc = "meta"
    /\ ~extract_metadata(root, cfg.input_root).ok
    /\ pc' = "walk"
    /\ outcomes' = Append(outcomes, "skipped")
    /\ UNCHANGED <<input_vars, idx, path_vars, summary_vars, csv_vars, output_vars>>

\* lines 78-102: the summary is read (js is what the file holds) and the
\* locals of step 3 are reset
ReadSummary(summaries) ==
    /\ pc = "summary"
    /\ \E js \in summaries :
           /\ summary' = js
           /\ k_window' = read_summary(js).k_window
           /\ n_pairs' = read_summary(js).n_pairs
           /\ total_tokens' = read_summary(js).total_tokens
    /\ csv_read' = <<>> /\ rows' = <<>> /\ n_rows_csv' = 0 /\ n_rows_dropped_non_alnum' = 0
    /\ pc' = "csv"
    /\ UNCHANGED <<input_vars, idx, path_vars, outcomes, output_vars>>

\* lines 108-173: one more row of the CSV file; an exception in it leaves the
\* try block for the handler of lines 240-241
ReadRow(csv_rows, max_rows) ==
    /\ pc = "csv" /\ Len(csv_read) < max_rows
    /\ \E row \in csv_rows :
           LET t == transform_row(row, Len(csv_read) + 1, cfg.mode,
                                  cfg.min_ai_count_for_impact, cfg.smooth2, total_tokens)
           IN  /\ csv_read' = Append(csv_read, row)
               /\ n_rows_csv' = n_rows_csv + 1
               /\ n_rows_dropped_non_alnum' =
                      IF t.kind = "drop_alnum" THEN n_rows_dropped_non_alnum + 1
                      ELSE n_rows_dropped_non_alnum
               /\ rows' = IF t.kind = "row" THEN Append(rows, t.row) ELSE rows
               /\ pc' = IF t.kind = "raise" THEN "walk" ELSE "csv"
               /\ outcomes' = IF t.kind = "raise" THEN Append(outcomes, "csv_error")
                              ELSE outcomes
    /\ UNCHANGED <<input_vars, idx, path_vars, summary_vars, output_vars>>

\* lines 105-108: open() or the decoding of the next line raises
CsvReadError ==
    /\ pc = "csv"
    /\ pc' = "walk"
    /\ outcomes' = Append(outcomes, "csv_error")
    /\ UNCHANGED <<input_vars, idx, path_vars, summary_vars, csv_vars, output_vars>>

\* line 108: the file has no more rows
EndOfCsv ==
    /\ pc = "csv"
    /\ pc' = "rank_las"
    /\ UNCHANGED <<input_vars, idx, path_vars, summary_vars, csv_vars, outcomes, output_vars>>

\* lines 177-179
RankLas ==
    /\ pc = "rank_las"
    /\ rows' = rank_las(rows)
    /\ pc' = "rank_lpr"
    /\ UNCHANGED <<input_vars, idx, path_vars, summary_vars, csv_read, n_rows_csv,
                   n_rows_dropped_non_alnum, outcomes, output_vars>>

\* lines 182-184
RankLpr ==
    /\ pc = "rank_lpr"
    /\ rows' = rank_lpr(rows)
    /\ pc' = "final"
    /\ UNCHANGED <<input_vars, idx, path_vars, summary_vars, csv_read, n_rows_csv,
                   n_rows_dropped_non_alnum, outcomes, output_vars>>

\* lines 187-192
FinalSortRound ==
    /\ pc = "final"
    /\ rows' = final_sort_and_round(rows)
    /\ pc' = "save"
    /\ UNCHANGED <<input_vars, idx, path_vars, summary_vars, csv_read, n_rows_csv,
                   n_rows_dropped_non_alnum, outcomes, output_vars>>

\* lines 209-223
final_data ==
    [meta |-> [np |-> n_pairs, kw |-> k_window, tt |-> total_tokens, src |-> root,
               md |-> cfg.mode, min |-> cfg.min_ai_count_for_impact, sm |-> cfg.smooth2,
               n0 |-> n_rows_csv, n1 |-> Len(rows), nx |-> n_rows_dropped_non_alnum],
     data |-> rows]

\* lines 195-238: the dataset file is written and the inventory grows
WriteOutput ==
    /\ pc = "save"
    /\ files' = (output_filename(lang, register, model_clean) :> final_data) @@ files
    /\ inventory' = Append(inventory,
                           [lang |-> lang, register |-> register, model |-> model_clean])
    /\ outcomes' = Append(outcomes, "written")
    /\ pc' = "walk"
    /\ UNCHANGED <<input_vars, idx, path_vars, summary_vars, csv_vars, index_json>>

\* line 226 raises after an inventory.append moved before the write
WriteOutputFailsAfterAppend ==
    /\ pc = "save"
    /\ inventory' = Append(inventory,
                           [lang |-> lang, register |-> register, model |-> model_clean])
    /\ outcomes' = Append(outcomes, "write_error")
    /\ pc' = "walk"
    /\ UNCHANGED <<input_vars, idx, path_vars, summary_vars, csv_vars, files, index_json>>

\* line 226: open() raises, nothing is written (handler of lines 240-241)
WriteOutputFails ==
    /\ pc = "save"
    /\ outcomes' = Append(outcomes, "write_error")
    /\ pc' = "walk"
    /\ UNCHANGED <<input_vars, idx, path_vars, summary_vars, csv_vars, output_vars>>

\* lines 244-245
WriteIndex ==
    /\ pc = "walk" /\ idx = Len(todo)
    /\ index_json' = [written |-> TRUE, entries |-> inventory]
    /\ pc' = "done"
    /\ UNCHANGED <<input_vars, idx, path_vars, summary_vars, csv_vars, outcomes, inventory,
                   files>>

\* process_directory with the file contents drawn from the given sets
NextFrom(summaries, csv_rows, max_rows) ==
    \/ NextCsvFile
    \/ SkipNoSummary
    \/ ExtractMetadata
    \/ SkipBadPath
    \/ ReadSummary(summaries)
    \/ ReadRow(csv_rows, max_rows)
    \/ CsvReadError
    \/ EndOfCsv
    \/ RankLas
    \/ RankLpr
    \/ FinalSortRound
    \/ WriteOutput
    \/ WriteOutputFails
    \/ WriteIndex

(***************************************************************************)
(* The inputs of the checked runs                                          *)
(***************************************************************************)
CsvFilesDir == <<"c", "s", "v", "_", "f", "i", "l", "e", "s">>

DataDir == <<"d", "a", "t", "a">>

RunsDir == <<"r", "u", "n", "s">>

News == <<"n", "e", "w", "s">>

Gpt == <<"g", "p", "t">>

DateStamp == <<"-", "2", "0", "2", "4", "-", "0", "1", "-", "1", "5">>

\* "las-gpt-2024-01-15"
LasGptDated == LasPrefix \o Gpt \o DateStamp

\* "atlas-7b"
Atlas7b == <<"a", "t">> \o LasPrefix \o <<"7", "b">>

En == <<"e", "n">>

De == <<"d", "e">>

CsvFileOf(lang_) == LasWordPrefix \o lang_ \o CsvSuffix

Entry(sub, lang_, has_summary) ==
    [sub |-> sub, csv_file |-> CsvFileOf(lang_), has_summary |-> has_summary]

\* "csv_files" and "data/runs/data"
RunRoots == {<<CsvFilesDir>>, <<DataDir, RunsDir, DataDir>>}

\* news/las_word_en.csv, news/gpt/las_word_en.csv, ... with their summaries,
\* and news/gpt/las_word_de.csv without one
RunEntries ==
    {Entry(<<News>>, En, TRUE), Entry(<<News, Gpt>>, En, TRUE),
     Entry(<<News, LasGptDated>>, En, TRUE), Entry(<<News, Atlas7b>>, En, TRUE),
     Entry(<<News, Gpt>>, De, FALSE)}

Row(form, c_M, c_H, LAS) == [form |-> form, c_M |-> c_M, c_H |-> c_H, LAS |-> LAS]

\* {"pairing_qc": {"model_lines": 3}}: 3 pairs of the default window
GoodSummary ==
    [ok |-> TRUE, params |-> JMember("absent", FALSE, JNull),
     pairing_qc |-> JMember("dict", TRUE, JInt(3)), qc |-> JMember("absent", FALSE, JNull)]

RunSummaries == {GoodSummary, NoSummary}

\* the rows ab,2,1,0.5 and ab,x,1,0.5
RunRows ==
    {Row(<<"a", "b">>, Cell("num", 2), Cell("num", 1), Cell("num", 50000000)),
     Row(<<"a", "b">>, Cell("junk", 0), Cell("num", 1), Cell("num", 50000000))}

MaxDatasets == 2

MaxRowsRun == 1

Init == InitFrom(RunRoots, {"full"}, {2}, {1}, RunEntries, MaxDatasets)

Next == NextFrom(RunSummaries, RunRows, MaxRowsRun)

\* a run over a tree of several datasets
Spec == Init /\ [][Next]_vars

\* the run goes on while a step is left to take (the script is one thread)
FairSpec == Spec /\ WF_vars(Next)

(***************************************************************************)
(* Properties of the run over a tree (Spec, FairSpec)                      *)
(***************************************************************************)
\* what process_directory derives for entry i of the walk
RootOf(i) == walk_root(cfg.input_root, todo[i].sub)

LangOf(i) == lang_of(todo[i].csv_file)

MetaOf(i) == extract_metadata(RootOf(i), cfg.input_root)

TripleOf(i) ==
    [lang |-> LangOf(i), register |-> MetaOf(i).register, model |-> MetaOf(i).model_clean]

FileOf(i) == output_filename(LangOf(i), MetaOf(i).register, MetaOf(i).model_clean)

Failures == {"skipped", "csv_error", "write_error"}

\* the triples of the entries 1..n whose dataset file was written, in walk order
RECURSIVE WrittenTriples(_)
WrittenTriples(n) ==
    IF n = 0 THEN <<>>
    ELSE IF outcomes[n] = "written" THEN Append(WrittenTriples(n - 1), TripleOf(n))
    ELSE WrittenTriples(n - 1)

C2_Inventory ==
    /\ Len(outcomes) <= Len(todo)
    /\ inventory = WrittenTriples(Len(outcomes))
    /\ DOMAIN files = {FileOf(i) : i \in {j \in 1..Len(outcomes) : outcomes[j] = "written"}}
    /\ index_json.written <=> pc = "done"
    /\ pc = "done" =>
           /\ Len(outcomes) = Len(todo)
           /\ index_json.entries = WrittenTriples(Len(todo))

\* C2: whatever fails in a dataset (metadata extraction, summary reading, CSV
\* processing, the write), the run reaches the step that writes index.json,
\* every entry of the walk has been dealt with by then, and the inventory
\* written is exactly the triples of the datasets whose file was written, in
\* walk order.
C2_RunCompletesWithExactInventory == []C2_Inventory /\ <>(pc = "done")

\* C2's case: a dataset failed, a later one was written, index.json is written
C2_Witness ==
    /\ pc = "done" /\ index_json.written
    /\ \E i, j \in 1..Len(outcomes) :
           i < j /\ outcomes[i] \in Failures /\ outcomes[j] = "written"
    /\ outcomes[Len(outcomes)] = "written" /\ read_summary(summary).failed

\* C8 as claimed: register and model_raw are the first and second segment of
\* the directory below the input root, and a directory is skipped exactly
\* when the root's base name is no segment of its path or fewer than two
\* segments lie below the root.
C8_RegisterAndModelAreSegmentsBelowRoot ==
    /\ pc = "summary" =>
           /\ Len(todo[idx].sub) >= 2
           /\ register = todo[idx].sub[1]
           /\ model_raw = todo[idx].sub[2]
    /\ (pc = "walk" /\ idx >= 1 /\ outcomes[idx] = "skipped") =>
           \/ Len(todo[idx].sub) < 2
           \/ \A k \in 1..Len(normpath(root)) : normpath(root)[k] # basename(cfg.input_root)

\* the cleaning C9 describes: "las-" goes only where the name starts with it
StripLeading(name, prefix) ==
    IF StartsWithAt(name, 1, prefix) THEN SubSeq(name, Len(prefix) + 1, Len(name)) ELSE name

\* C9 as claimed: clean_model_name removes "las-" only as a prefix, then cuts
\* the name at its first date stamp, and keeps every other character.
C9_LasRemovedOnlyAsPrefix ==
    pc = "summary" => model_clean = CutDateStamp(StripLeading(model_raw, LasPrefix))

\* C10 as claimed: no two inventory entries are the same triple, and the file
\* of every written dataset still holds that dataset (no other dataset of the
\* run wrote to the same file name).
C10_OneOutputFilePerDataset ==
    /\ \A i, j \in 1..Len(inventory) : i < j => inventory[i] # inventory[j]
    /\ \A i \in 1..Len(outcomes) :
           outcomes[i] = "written" =>
               /\ FileOf(i) \in DOMAIN files
               /\ files[FileOf(i)].meta.src = RootOf(i)

(***************************************************************************)
(* One dataset with several rows: the rank passes (SpecRank)               *)
(***************************************************************************)
\* one dataset directory, one too shallow, one CSV file without a summary
OneEntries ==
    {Entry(<<News, Gpt>>, En, TRUE), Entry(<<News>>, En, TRUE), Entry(<<News, Gpt>>, De, FALSE)}

\* counts 0/0, 2/0, 2/1, 2/nan with LAS "", 0.00012, 0.00016, nan
RankRows ==
    {Row(<<"a", "b">>, Cell("num", c[1]), c[2], las) :
        c \in {<<0, Cell("num", 0)>>, <<2, Cell("num", 0)>>, <<2, Cell("num", 1)>>,
               <<2, Cell("nan", 0)>>},
        las \in {Cell("empty", 0), Cell("num", 12000), Cell("num", 16000), Cell("nan", 0)}}

MaxRowsRank == 3

InitRank == InitFrom({<<CsvFilesDir>>}, {"full"}, {2}, {1}, OneEntries, 1)

NextRank == NextFrom({GoodSummary}, RankRows, MaxRowsRank)

SpecRank == InitRank /\ [][NextRank]_vars

\* Python's x > y and x == y on floats
FGt(x, y) == FLt(y, x)

FEq(x, y) == ~x.nan /\ ~y.nan /\ x.v = y.v

\* the ranks 1..n are each given once
RanksArePermutation(rank) == {rank[i] : i \in DOMAIN rank} = 1..Len(rank)

\* Rank positions of a stable descending sort: key, rank and before are the
\* sort key, the rank given and the position before the pass, per row
StableDescendingRanks(key, rank, before) ==
    /\ RanksArePermutation(rank)
    /\ \A i, j \in DOMAIN key :
           /\ FGt(key[i], key[j]) => rank[i] < rank[j]
           /\ FEq(key[i], key[j]) /\ before[i] < before[j] => rank[i] < rank[j]

LasPassRanks ==
    StableDescendingRanks([i \in DOMAIN rows |-> rows[i].las],
                          [i \in DOMAIN rows |-> rows[i].rk_las],
                          [i \in DOMAIN rows |-> rows[i].src])

LprPassRanks ==
    StableDescendingRanks([i \in DOMAIN rows |-> rows[i].lpr],
                          [i \in DOMAIN rows |-> rows[i].rk_lpr],
                          [i \in DOMAIN rows |-> rows[i].rk_las])

\* C3 as claimed: each rank pass gives the ranks 1..n once each, a strictly
\* larger key a strictly smaller rank, and equal keys ranks in the order the
\* rows had before the pass (CSV order for rk_las, rk_las order for rk_lpr).
C3_RanksAreStableDescendingPositions ==
    /\ pc = "rank_lpr" => LasPassRanks
    /\ pc = "final" => LprPassRanks

NoNaNKey(field) == \A i \in DOMAIN rows : ~rows[i][field].nan

\* C3 where it holds: the same, for the passes whose
\* keys hold no NaN
C3_HoldsWithoutNaN ==
    /\ (pc = "rank_lpr" /\ NoNaNKey("las")) => LasPassRanks
    /\ (pc = "final" /\ NoNaNKey("lpr")) => LprPassRanks

\* rk_las of the row that came from CSV row src (0: no such row)
RkLasOf(rs, src) ==
    IF \E i \in DOMAIN rs : rs[i].src = src
    THEN rs[CHOOSE i \in DOMAIN rs : rs[i].src = src].rk_las
    ELSE 0

DataInRankOrder(data) ==
    /\ \A i \in DOMAIN data : data[i].rk_las = i
    /\ sort_by_rk_las(data) = data

C4_RkLasKept ==
    pc \in {"rank_lpr", "final"} =>
        \A src \in 1..Len(csv_read) : RkLasOf(rows', src) = RkLasOf(rows, src)

\* C4: the data array of every written dataset is in rk_las order (the row at
\* index i has rk_las = i + 1, so sorting it by rk_las again changes nothing),
\* and neither the rk_lpr pass nor the final rounding changes an rk_las.
C4_DataOrderedByRkLas ==
    /\ [](\A f \in DOMAIN files : DataInRankOrder(files[f].data))
    /\ [][C4_RkLasKept]_vars

\* C4's case: a written dataset of three rows whose rk_lpr order is not its
\* rk_las order, so that the final sort had rows to move
C4_Witness ==
    \E f \in DOMAIN files :
        /\ Len(files[f].data) >= 3
        /\ \E i \in DOMAIN files[f].data : files[f].data[i].rk_lpr # i

(***************************************************************************)
(* One dataset under both modes: the row filters and the numeric cells     *)
(* (SpecRows)                                                              *)
(***************************************************************************)
Dots == <<".", ".", ".">>

ThreeDot == <<"3", ".">>

PaddedAb == <<" ", "a", "b", " ">>

Half == Cell("num", 50000000)

Junk == Cell("junk", 0)

FilterRows ==
    {Row(Dots, Cell("num", 2), Cell("num", 0), Half),
     Row(Dots, Junk, Cell("num", 0), Half),
     Row(NoneStr, Cell("num", 2), Cell("num", 0), Half),
     Row(ThreeDot, Cell("num", 2), Cell("num", 0), Half),
     Row(PaddedAb, Cell("num", 0), Cell("num", 3), Half),
     Row(PaddedAb, Cell("num", 0), Cell("num", 0), Half),
     Row(PaddedAb, Cell("num", 0), Cell("num", 3), Junk),
     Row(PaddedAb, Cell("num", 1), Cell("num", 0), Half),
     Row(PaddedAb, Cell("num", 1), Cell("num", 3), Half),
     Row(PaddedAb, Cell("num", 2), Cell("num", 3), Half),
     Row(PaddedAb, Cell("nan", 0), Cell("num", 0), Half),
     Row(PaddedAb, Cell("empty", 0), Cell("num", 3), Cell("none", 0)),
     Row(PaddedAb, Junk, Cell("num", 3), Half),
     Row(PaddedAb, Cell("num", 2), Junk, Half),
     Row(PaddedAb, Cell("num", 2), Cell("num", 0), Junk)}

MaxRowsFilter == 2

InitRows == InitFrom({<<CsvFilesDir>>}, {"full", "compact"}, {1, 2}, {0, 1}, OneEntries, 1)

NextRows == NextFrom({GoodSummary}, FilterRows, MaxRowsFilter)

SpecRows == InitRows /\ [][NextRows]_vars

\* the dataset of the current directory has just been written
JustWritten ==
    /\ pc = "walk" /\ idx >= 1 /\ Len(outcomes) = idx /\ outcomes[idx] = "written"
    /\ output_filename(lang, register, model_clean) \in DOMAIN files

WrittenData == files[output_filename(lang, register, model_clean)].data

\* CSV row i is in the data that was written
Emitted(i) == \E j \in DOMAIN WrittenData : WrittenData[j].src = i

\* a cell that holds a text which is not a number
Unparseable(cell) == cell.k = "junk"

\* the form has an alphanumeric character
HasAlnumChar(form) == form # NoneStr /\ \E i \in DOMAIN form : IsAlnum(form[i])

\* the count of a cell that parses (a missing or empty cell counts 0) is zero
CountIsZero(cell) == cell.k \in {"none", "empty"} \/ (cell.k = "num" /\ cell.v = 0)

\* the count of a cell, an unparseable one counting 0.0
CountOrZero(cell) == IF cell.k = "nan" THEN NaN ELSE Num(cell.v)

PassesFilters(row) ==
    /\ HasAlnumChar(row.form)
    /\ cfg.mode = "full" \/ ~FIsZero(CountOrZero(row.c_M))

\* C1 as claimed: a numeric cell of a CSV row that does not parse counts as
\* 0.0 and the row is still emitted unless a filter removes it; the rows read
\* before it stay and the dataset is not given up (rows on which the ratio
\* of line 139 divides by zero set aside).
C1_UnparseableFieldDefaultsToZero ==
    \A i \in DOMAIN csv_read :
        (/\ \E col \in {"c_M", "c_H", "LAS"} : Unparseable(csv_read[i][col])
         /\ PassesFilters(csv_read[i])
         /\ 2 * CountOrZero(csv_read[i].c_H).v + cfg.smooth2 # 0)
        => /\ \E j \in DOMAIN rows :
                  /\ rows[j].src = i
                  /\ Unparseable(csv_read[i].LAS) => rows[j].las = Num(0)
           /\ ~(pc = "walk" /\ outcomes[idx] = "csv_error")

\* C5: when the numeric cells of a CSV all parse, a row is in the written
\* data exactly when its form has an alphanumeric character and the mode is
\* "full" or its c_M is not zero, each such row once.
C5_RowEmittedIffAlnumAndNotCompactZero ==
    (JustWritten /\ \A i \in DOMAIN csv_read :
                        \A col \in {"c_M", "c_H", "LAS"} : ~Unparseable(csv_read[i][col]))
    => /\ \A i \in DOMAIN csv_read :
              Emitted(i) <=> /\ HasAlnumChar(csv_read[i].form)
                             /\ cfg.mode = "full" \/ ~CountIsZero(csv_read[i].c_M)
       /\ \A j, k \in DOMAIN WrittenData :
              WrittenData[j].src = WrittenData[k].src => j = k
       /\ \A j \in DOMAIN WrittenData : WrittenData[j].src \in DOMAIN csv_read

\* C5's case: a compact dataset is written from a CSV with the form "3."
\* (kept) and a row with c_M = 0 and c_H = 3 (dropped)
C5_Witness ==
    /\ JustWritten /\ cfg.mode = "compact"
    /\ \E i, k \in DOMAIN csv_read :
           /\ csv_read[i].form = ThreeDot /\ Emitted(i)
           /\ csv_read[k] = Row(PaddedAb, Cell("num", 0), Cell("num", 3), Half)
           /\ ~Emitted(k)

\* C6: a written row whose c_M is below min_ai_count_for_impact has lpr = 0
\* whatever its c_H, and a row whose lpr is not 0 has c_M at or above it.
C6_ImpactZeroBelowMinCount ==
    JustWritten =>
        \A j \in DOMAIN WrittenData :
            LET row == csv_read[WrittenData[j].src]
                c_M == CountOrZero(row.c_M)
            IN  /\ (~c_M.nan /\ c_M.v < cfg.min_ai_count_for_impact)
                       => WrittenData[j].lpr = Num(0)
                /\ WrittenData[j].lpr # Num(0)
                       => (~c_M.nan /\ c_M.v >= cfg.min_ai_count_for_impact)

\* C6's case: a written dataset with a row below the minimum whose counts
\* differ (c_M = 1, c_H = 0, min = 2) and a row at the minimum with lpr # 0
C6_Witness ==
    /\ JustWritten /\ cfg.min_ai_count_for_impact = 2
    /\ \E j, k \in DOMAIN WrittenData :
           /\ csv_read[WrittenData[j].src].c_M = Cell("num", 1)
           /\ csv_read[WrittenData[j].src].c_H = Cell("num", 0)
           /\ csv_read[WrittenData[k].src].c_M = Cell("num", 2)
           /\ WrittenData[k].lpr # Num(0)

(***************************************************************************)
(* One dataset under every shape of summary (SpecSummary)                  *)
(***************************************************************************)
\* a member of the summary: not there, not an object, an object without the
\* key, or an object with the key at null, 0 or v
MemberShapes(v) ==
    {JMember("absent", FALSE, JNull), JMember("notdict", FALSE, JNull),
     JMember("dict", FALSE, JNull), JMember("dict", TRUE, JNull),
     JMember("dict", TRUE, JInt(0)), JMember("dict", TRUE, JInt(v))}

SummaryShapes ==
    {NoSummary} \cup
    [ok : {TRUE}, params : MemberShapes(3), pairing_qc : MemberShapes(2), qc : MemberShapes(5)]

SummaryRows ==
    {Row(PaddedAb, Cell("num", 2), Cell("num", 1), Half),
     Row(PaddedAb, Cell("num", 0), Cell("num", 3), Half)}

MaxRowsSummary == 1

InitSummary == InitFrom({<<CsvFilesDir>>}, {"full"}, {2}, {1}, OneEntries, 1)

NextSummary == NextFrom(SummaryShapes, SummaryRows, MaxRowsSummary)

SpecSummary == InitSummary /\ [][NextSummary]_vars

\* the member is an object that has its key
Present(member) == member.kind = "dict" /\ member.has

\* qc is looked at: pairing_qc.model_lines is not there or is 0
QcConsulted(js) == ~Present(js.pairing_qc) \/ JIsZero(js.pairing_qc.val)

\* reading or parsing the summary fails: the file is unreadable or not a JSON
\* object, or a member that is looked at is not an object
ReadFails(js) ==
    \/ ~js.ok
    \/ js.params.kind = "notdict"
    \/ js.pairing_qc.kind = "notdict"
    \/ QcConsulted(js) /\ js.qc.kind = "notdict"

ZeroOrMissing(x) == x.null \/ x.v = 0

SummaryValuesAsRead ==
    /\ n_pairs = IF ~QcConsulted(summary) THEN summary.pairing_qc.val
                 ELSE IF Present(summary.qc) THEN summary.qc.val
                 ELSE JInt(0)
    /\ k_window = IF Present(summary.params) THEN summary.params.val ELSE JInt(DefaultWindow)
    /\ total_tokens = IF ZeroOrMissing(n_pairs) \/ ZeroOrMissing(k_window) THEN 0
                      ELSE n_pairs.v * k_window.v

C7_Values ==
    /\ ~ReadFails(summary) => SummaryValuesAsRead
    /\ ReadFails(summary) => total_tokens = 0
    /\ (JustWritten /\ total_tokens = 0) =>
           \A j \in DOMAIN WrittenData : WrittenData[j].a = Num(0) /\ WrittenData[j].h = Num(0)

\* C7: n_pairs is pairing_qc.model_lines when present and not 0, else
\* qc.n_pairs, else 0; k_window is params.windowk or 40; total_tokens is
\* their product, 0 when a factor is zero or missing; a summary that cannot
\* be read gives total_tokens = 0, the CSV is read all the same and the rows
\* written then have a = h = 0.
C7_SummaryReaderValues ==
    /\ []C7_Values
    /\ [][pc = "summary" => pc' = "csv"]_vars

\* C7's case: a dataset is written with a row although reading its summary
\* failed after params.windowk was taken (pairing_qc is not an object)
C7_Witness ==
    /\ JustWritten /\ ReadFails(summary) /\ summary.ok
    /\ k_window = JInt(3) /\ total_tokens = 0
    /\ Len(WrittenData) >= 1

====
